---- MODULE Spec2Model ----
(***************************************************************************)
(* GasMon: the streaming pipeline of gasmon/pipeline.py as main() in       *)
(* gasmon/__init__.py assembles and drives it.                             *)
(*                                                                         *)
(* Every stage is a Python generator.  The sink's for-loop asks the last   *)
(* generator for an item; the request travels up to the event source; the  *)
(* item then travels down, one stage body at a time.  The model has one    *)
(* action per generator body (one loop iteration), one for the sink's      *)
(* request, one for the sink's print, two for the event source and one for *)
(* the passing of wall-clock time.                                         *)
(*                                                                         *)
(* time.time() is the variable now.  A handler that reads the clock twice  *)
(* (RemoveDuplicates and AverageValuesPerMinute do, when a window is       *)
(* reset) may get a later second reading.  Values are integers; Python's   *)
(* true division total / count is kept exact as the pair (num, den).       *)
(***************************************************************************)
EXTENDS Integers, Sequences, FiniteSets, TLC

\* ------------------------------------------------------------------ bounds
MaxEvents == 3
MaxTime == 660

\* the clock readings the model distinguishes: the instants around the
\* boundaries of the 60 s and 300 s windows
ClockGrid == {t \in 0..MaxTime : t % 300 \in {0, 60}}

\* how much later a handler's second clock reading can be than its first
ReadSkew == 60

\* run_time_seconds values the configuration may hold
RunTimeChoices == {-1, 0, 60, 600}

\* ------------------------------------------------------- program constants
\* RemoveDuplicates.time
RDTime == 300
\* the literal 60 of AverageValuesPerMinute.handle
AVGWindow == 60

\* ------------------------------------------------------------ data model
\* the list get_locations returns: Location(x, y, id)
Locations ==
  << [x |-> 1, y |-> 1, id |-> "A"], [x |-> 2, y |-> 5, id |-> "B"] >>

\* Event(location_id, event_id, value, timestamp)
Event(location_id, event_id, value, timestamp) ==
  [location_id |-> location_id, event_id |-> event_id, value |-> value,
   timestamp |-> timestamp]

\* the events the source can deliver, any number of times each; location
\* "C" is not in Locations
EventPool ==
  { Event("A", "e1", 10, 0), Event("B", "e2", 20, 0), Event("C", "e3", 5, 0) }

\* total / count, Python true division; den = 0 is ZeroDivisionError
Div(total, count) == [num |-> total, den |-> count]

\* ------------------------------------------------------------ composition
\* a stage object
Stage(name) == [stage |-> name]

\* ComposedPipeline(first, second) keeps its two parts
ComposedPipeline(first, second) == [first |-> first, second |-> second]

\* a.compose(b) is ComposedPipeline(a, b)
compose(self, other) == ComposedPipeline(self, other)

\* mutant: the generator of second is wrapped by that of first
HandleOrder_SecondFirst(first_stages, second_stages) ==
  second_stages \o first_stages

\* ComposedPipeline.handle(events) is second.handle(first.handle(events)):
\* an item is handled by the stages of first, then by those of second
HandleOrder(first_stages, second_stages) == first_stages \o second_stages

\* the stages of a pipeline in the order in which they handle an item
RECURSIVE Stages(_)
Stages(p) ==
  IF "stage" \in DOMAIN p THEN << p.stage >>
  ELSE HandleOrder(Stages(p.first), Stages(p.second))

fixed_duration_source == Stage("FDS")
remove_duplicates == Stage("RD")
average_values == Stage("AVG")
values_per_location == Stage("VPL")

\* main(): pipeline = values_per_location.compose(average_values.compose(
\*             remove_duplicates.compose(fixed_duration_source)))
\* taken as the order in which its stages handle an item
pipeline ==
  Stages(compose(values_per_location,
                 compose(average_values,
                         compose(remove_duplicates, fixed_duration_source))))

VARIABLES now, fds, rd, avg, vpl, phase, pos, cur, taken, log, printed, ended,
          polled, obs, alt, recv, parsed

vars == << now, fds, rd, avg, vpl, phase, pos, cur, taken, log, printed, ended,
          polled, obs, alt, recv, parsed >>

\* the readings a second time.time() call of the same handler can return
LaterReads(t) == {u \in ClockGrid : u >= t /\ u - t <= ReadSkew}

\* ------------------------------------------------------- FixedDurationSource
\* end_time = time.time() + self.run_time_seconds, at the generator's start
FDSEndTime(t, run_time_seconds) == t + run_time_seconds

\* mutant: handle is an ordinary function, end_time is computed at the call
FDSHandleCall_Eager(f, t) ==
  [f EXCEPT !.started = TRUE,
            !.end_time = FDSEndTime(t, f.run_time_seconds),
            !.first_pull = t]

\* FixedDurationSource.handle(events) is called: handle is a generator
\* function, the call returns a generator and runs nothing of the body
FDSHandleCall(f, t) == f

\* mutant: the deadline itself still counts as in time
FDSInTime_Inclusive(t, end_time) == t <= end_time

\* the deadline test of the loop body
FDSInTime(t, end_time) == t < end_time

\* mutant: a late item is skipped and the loop goes on
FDSHandleEvent_SkipLate(f, e, t) ==
  IF FDSInTime(t, f.end_time)
  THEN [st |-> [f EXCEPT !.events_processed = @ + 1], out |-> << e >>,
        stop |-> FALSE]
  ELSE [st |-> f, out |-> << >>, stop |-> FALSE]

\* mutant: events_processed counts every item taken, the late one too
FDSHandleEvent_CountAll(f, e, t) ==
  IF FDSInTime(t, f.end_time)
  THEN [st |-> [f EXCEPT !.events_processed = @ + 1], out |-> << e >>,
        stop |-> FALSE]
  ELSE [st |-> [f EXCEPT !.events_processed = @ + 1], out |-> << >>,
        stop |-> TRUE]

\* one iteration of the loop of FixedDurationSource.handle
FDSHandleEvent(f, e, t) ==
  IF FDSInTime(t, f.end_time)
  THEN [st |-> [f EXCEPT !.events_processed = @ + 1], out |-> << e >>,
        stop |-> FALSE]
  ELSE [st |-> f, out |-> << >>, stop |-> TRUE]

\* ---------------------------------------------------------- RemoveDuplicates
\* mutant: a forwarded id is not put into the cache
RDHandleEvent_NoRecord(r, e, t1, t2) ==
  LET r1 == IF t1 - r.start_time >= r.time
            THEN [r EXCEPT !.event_id_cache = {}, !.start_time = t2]
            ELSE r
  IN IF e.event_id \in r1.event_id_cache
     THEN [st |-> [r1 EXCEPT !.counter = @ + 1], out |-> << >>,
           stop |-> FALSE]
     ELSE [st |-> r1, out |-> << e >>, stop |-> FALSE]

\* mutant: the membership test runs before the expiry test
RDHandleEvent_MembershipFirst(r, e, t1, t2) ==
  LET dup == e.event_id \in r.event_id_cache
      r1 == IF t1 - r.start_time >= r.time
            THEN [r EXCEPT !.event_id_cache = {}, !.start_time = t2]
            ELSE r
  IN IF dup
     THEN [st |-> [r1 EXCEPT !.counter = @ + 1], out |-> << >>,
           stop |-> FALSE]
     ELSE [st |-> [r1 EXCEPT !.event_id_cache = @ \cup {e.event_id}],
           out |-> << e >>, stop |-> FALSE]

\* mutant: a window reset also resets the counter
RDHandleEvent_CounterReset(r, e, t1, t2) ==
  LET r1 == IF t1 - r.start_time >= r.time
            THEN [r EXCEPT !.event_id_cache = {}, !.start_time = t2,
                           !.counter = 0]
            ELSE r
  IN IF e.event_id \in r1.event_id_cache
     THEN [st |-> [r1 EXCEPT !.counter = @ + 1], out |-> << >>,
           stop |-> FALSE]
     ELSE [st |-> [r1 EXCEPT !.event_id_cache = @ \cup {e.event_id}],
           out |-> << e >>, stop |-> FALSE]

\* one iteration of the loop of RemoveDuplicates.handle; t1 is current_time,
\* t2 the reading stored in start_time when the window is reset
RDHandleEvent(r, e, t1, t2) ==
  LET r1 == IF t1 - r.start_time >= r.time
            THEN [r EXCEPT !.event_id_cache = {}, !.start_time = t2]
            ELSE r
  IN IF e.event_id \in r1.event_id_cache
     THEN [st |-> [r1 EXCEPT !.counter = @ + 1], out |-> << >>,
           stop |-> FALSE]
     ELSE [st |-> [r1 EXCEPT !.event_id_cache = @ \cup {e.event_id}],
           out |-> << e >>, stop |-> FALSE]

\* ---------------------------------------------------- AverageValuesPerMinute
\* mutant: the close test runs before the event is added
AVGHandleEvent_CloseBeforeAdd(a, e, t1, t2) ==
  LET a1 == IF t1 - a.start_time >= AVGWindow
            THEN [a EXCEPT
                    !.average_values =
                       Append(@, Div(a.total_value, a.counter)),
                    !.average_values_timestamp = Append(@, t1),
                    !.total_value = 0,
                    !.counter = 0,
                    !.start_time = t2]
            ELSE a
  IN [st |-> [a1 EXCEPT !.total_value = @ + e.value, !.counter = @ + 1],
      out |-> << e >>, stop |-> FALSE]

\* mutant: the event that closes a window is not forwarded
AVGHandleEvent_SwallowOnClose(a, e, t1, t2) ==
  LET a1 == [a EXCEPT !.total_value = @ + e.value, !.counter = @ + 1]
  IN IF t1 - a1.start_time >= AVGWindow
     THEN [st |-> [a1 EXCEPT
                     !.average_values =
                        Append(@, Div(a1.total_value, a1.counter)),
                     !.average_values_timestamp = Append(@, t1),
                     !.total_value = 0,
                     !.counter = 0,
                     !.start_time = t2],
           out |-> << >>, stop |-> FALSE]
     ELSE [st |-> a1, out |-> << e >>, stop |-> FALSE]

\* mutant: a window that is two or more minutes overdue is closed once per
\* elapsed minute
AVGHandleEvent_CatchUp(a, e, t1, t2) ==
  LET a1 == [a EXCEPT !.total_value = @ + e.value, !.counter = @ + 1]
      mean == Div(a1.total_value, a1.counter)
      late == t1 - a1.start_time >= 2 * AVGWindow
  IN IF t1 - a1.start_time >= AVGWindow
     THEN [st |-> [a1 EXCEPT
                     !.average_values =
                        IF late THEN @ \o << mean, mean >> ELSE Append(@, mean),
                     !.average_values_timestamp =
                        IF late THEN @ \o << t1 - AVGWindow, t1 >>
                        ELSE Append(@, t1),
                     !.total_value = 0,
                     !.counter = 0,
                     !.start_time = t2],
           out |-> << e >>, stop |-> FALSE]
     ELSE [st |-> a1, out |-> << e >>, stop |-> FALSE]

\* one iteration of the loop of AverageValuesPerMinute.handle; t1 is
\* current_time, t2 the reading stored in start_time when the window closes
AVGHandleEvent(a, e, t1, t2) ==
  LET a1 == [a EXCEPT !.total_value = @ + e.value, !.counter = @ + 1]
  IN IF t1 - a1.start_time >= AVGWindow
     THEN [st |-> [a1 EXCEPT
                     !.average_values =
                        Append(@, Div(a1.total_value, a1.counter)),
                     !.average_values_timestamp = Append(@, t1),
                     !.total_value = 0,
                     !.counter = 0,
                     !.start_time = t2],
           out |-> << e >>, stop |-> FALSE]
     ELSE [st |-> a1, out |-> << e >>, stop |-> FALSE]

\* mutant: the partial window is flushed when the input ends
AVGEndOfStream_Flush(a) ==
  IF a.counter > 0
  THEN [a EXCEPT !.average_values = Append(@, Div(a.total_value, a.counter)),
                 !.average_values_timestamp = Append(@, a.start_time),
                 !.total_value = 0,
                 !.counter = 0]
  ELSE a

\* the input of AverageValuesPerMinute.handle is exhausted: the for-loop ends
\* and nothing follows it
AVGEndOfStream(a) == a

\* ---------------------------------------------------------- ValuesPerLocation
\* ValuesAtLocation(location)
ValuesAtLocation(location) ==
  [x_location |-> location.x, y_location |-> location.y, id |-> location.id,
   values |-> << >>, counter |-> 0]

\* EventLocationContainer(locations)
EventLocationContainer(locations) ==
  [i \in 1..Len(locations) |-> ValuesAtLocation(locations[i])]

\* ValuesAtLocation.add_value
add_value(val_at_loc, value) ==
  [val_at_loc EXCEPT !.values = Append(@, value)]

\* EventLocationContainer.add_event
add_event(container, e) ==
  [i \in 1..Len(container) |->
     IF e.location_id = container[i].id
     THEN add_value(container[i], e.value)
     ELSE container[i]]

\* the sum of a sequence of numbers
RECURSIVE SeqSum(_)
SeqSum(q) == IF q = << >> THEN 0 ELSE q[1] + SeqSum(Tail(q))

\* mutant: average() takes the values out of the accumulator
average_Drain(l) ==
  LET total == SeqSum(l.values)
      counter == l.counter + Len(l.values)
  IN [st |-> [l EXCEPT !.counter = counter, !.values = << >>],
      result |-> IF counter = 0 THEN [num |-> total, den |-> 1]
                 ELSE Div(total, Len(l.values))]

\* mutant: the mean is taken over self.counter, which grows with every call
average_ByCounter(l) ==
  LET total == SeqSum(l.values)
      counter == l.counter + Len(l.values)
  IN [st |-> [l EXCEPT !.counter = counter],
      result |-> IF counter = 0 THEN [num |-> total, den |-> 1]
                 ELSE Div(total, counter)]

\* pipeline.ValuesAtLocation.average: the loop adds every value to total and
\* one to self.counter, which is never reset
average(l) ==
  LET total == SeqSum(l.values)
      counter == l.counter + Len(l.values)
  IN [st |-> [l EXCEPT !.counter = counter],
      result |-> IF counter = 0 THEN [num |-> total, den |-> 1]
                 ELSE Div(total, Len(l.values))]

\* mutant: every location of the container is reported
get_reported_locations_All(container) == container

\* EventLocationContainer.get_reported_locations; the filter object is lazy,
\* it reads the container when it is iterated
get_reported_locations(container) ==
  SelectSeq(container, LAMBDA l : Len(l.values) > 0)

\* PlotValues.plot: average() is called on every reported location; the
\* container afterwards
PlotValuesPlot(container) ==
  LET reported == get_reported_locations(container)
  IN [i \in DOMAIN container |->
        IF \E j \in DOMAIN reported : reported[j].id = container[i].id
        THEN average(container[i]).st
        ELSE container[i]]

\* mutant: an event that matches no location is not forwarded
VPLHandleEvent_MatchOnly(v, e) ==
  [st |-> add_event(v, e),
   out |-> IF \E i \in DOMAIN v : v[i].id = e.location_id
           THEN << e >> ELSE << >>,
   stop |-> FALSE]

\* one iteration of the loop of ValuesPerLocation.handle
VPLHandleEvent(v, e) ==
  [st |-> add_event(v, e), out |-> << e >>, stop |-> FALSE]

\* ------------------------------------------------------------------- state
\* no accessor of the location container has been called
NoCall == [op |-> "none", n |-> 0]

\* no second pipeline is run beside the first
NoRun == [on |-> FALSE]

\* Receiver(queue_subscription): nothing polled yet.  batch holds the
\* messages of the last poll that the lazy map has not converted yet, hist
\* what has happened since that poll, the poll included: the calls made on
\* the SQS client and the messages converted, in order
NewReceiver ==
  [queue_url |-> "queue-url", polls |-> 0, batch |-> << >>, hist |-> << >>]

\* get_locations has not been called
NotParsed == [called |-> FALSE]

Constructed ==
  /\ now = 0
  /\ \E r \in RunTimeChoices :
       fds = [run_time_seconds |-> r, events_processed |-> 0,
              started |-> FALSE, end_time |-> 0, first_pull |-> 0]
  /\ rd = [counter |-> 0, time |-> RDTime, event_id_cache |-> {},
           start_time |-> 0]
  /\ avg = [counter |-> 0, start_time |-> 0, average_values_timestamp |-> << >>,
            total_value |-> 0, average_values |-> << >>]
  /\ vpl = EventLocationContainer(Locations)
  /\ phase = "built"
  /\ pos = 0
  /\ cur = << >>
  /\ taken = 0
  /\ log = << >>
  /\ printed = << >>
  /\ ended = FALSE
  /\ polled = FALSE
  /\ obs = NoCall
  /\ recv = NewReceiver

Init ==
  /\ Constructed
  /\ alt = NoRun
  /\ parsed = NotParsed

\* what one stage body did with one item
LogEntry(stage, e, res, t, w) ==
  [stage |-> stage, k |-> taken, ev |-> e, out |-> res.out, t |-> t, w |-> w,
   act |-> IF res.out # << >> THEN "fwd"
           ELSE IF res.stop THEN "cut" ELSE "drop"]

\* mutant: the output of the first stage is wired past the second
Route_SkipStage(res) ==
  /\ phase' = IF res.out # << >> THEN "flow"
              ELSE IF res.stop THEN "done" ELSE "pull"
  /\ pos' = IF res.out # << >> THEN (IF pos = 1 THEN 3 ELSE pos + 1) ELSE 0
  /\ cur' = res.out

\* where the item goes after a stage body ran: down to the next stage or
\* the sink, back up to the source for the next item, or nowhere
Route(res) ==
  /\ phase' = IF res.out # << >> THEN "flow"
              ELSE IF res.stop THEN "done" ELSE "pull"
  /\ pos' = IF res.out # << >> THEN pos + 1 ELSE 0
  /\ cur' = res.out

AtStage(name) ==
  /\ phase = "flow"
  /\ pos \in 1..Len(pipeline)
  /\ pipeline[pos] = name

\* wall-clock time passes
Tick ==
  /\ phase = "pull" \/ (phase \in {"built", "idle"} /\ ~fds.started)
  /\ \E t \in ClockGrid : t > now /\ now' = t
  /\ UNCHANGED << fds, rd, avg, vpl, phase, pos, cur, taken, log, printed, ended,
               polled, obs, alt,
                  recv, parsed >>

\* PipelineWithSink.handle evaluates self.pipeline.handle(events): every
\* stage's handle is called on the generator of the stage before it
PipelineHandle ==
  /\ phase = "built"
  /\ phase' = "idle"
  /\ fds' = FDSHandleCall(fds, now)
  /\ UNCHANGED << now, rd, avg, vpl, pos, cur, taken, log, printed, ended,
               polled, obs, alt,
                  recv, parsed >>

\* the sink's for-loop asks for the next item; the first request starts
\* every generator body, FixedDurationSource's computes end_time
SinkNext ==
  /\ phase = "idle"
  /\ phase' = "pull"
  /\ fds' = IF fds.started THEN fds
            ELSE [fds EXCEPT !.started = TRUE,
                             !.end_time = FDSEndTime(now, fds.run_time_seconds),
                             !.first_pull = now]
  /\ UNCHANGED << now, rd, avg, vpl, pos, cur, taken, log, printed, ended,
               polled, obs, alt,
                  recv, parsed >>

\* the event source delivers an item to the first stage
SourceYield ==
  /\ phase = "pull"
  /\ taken < MaxEvents
  /\ \E e \in EventPool : cur' = << e >>
  /\ taken' = taken + 1
  /\ phase' = "flow"
  /\ pos' = 1
  /\ polled' = FALSE
  /\ UNCHANGED << now, fds, rd, avg, vpl, log, printed, ended, obs, alt,
                  recv, parsed >>

\* the source has no item to deliver: Receiver.get_events gets an empty
\* batch from _get_messages and its while True loop polls again; polled is
\* the parity of the empty polls since the last item
ReceiverPollEmpty ==
  /\ phase = "pull"
  /\ polled' = ~polled
  /\ UNCHANGED << now, fds, rd, avg, vpl, phase, pos, cur, taken, log, printed,
                  ended, obs, alt,
                  recv, parsed >>

\* the event source is exhausted: every for-loop ends
SourceEnd ==
  /\ phase = "pull"
  /\ phase' = "done"
  /\ avg' = AVGEndOfStream(avg)
  /\ ended' = TRUE
  /\ polled' = FALSE
  /\ UNCHANGED << now, fds, rd, vpl, pos, cur, taken, log, printed, obs, alt,
                  recv, parsed >>

FDSHandle ==
  /\ AtStage("FDS")
  /\ LET res == FDSHandleEvent(fds, cur[1], now)
     IN /\ fds' = res.st
        /\ log' = Append(log, LogEntry("FDS", cur[1], res, now, fds.end_time))
        /\ Route(res)
  /\ UNCHANGED << now, rd, avg, vpl, taken, printed, ended,
               polled, obs, alt,
                  recv, parsed >>

RDHandle ==
  /\ AtStage("RD")
  /\ \E t2 \in LaterReads(now) :
       LET res == RDHandleEvent(rd, cur[1], now, t2)
       IN /\ rd' = res.st
          /\ now' = IF now - rd.start_time >= rd.time THEN t2 ELSE now
          /\ log' = Append(log, LogEntry("RD", cur[1], res, now, rd.start_time))
          /\ Route(res)
  /\ UNCHANGED << fds, avg, vpl, taken, printed, ended,
               polled, obs, alt,
                  recv, parsed >>

AVGHandle ==
  /\ AtStage("AVG")
  /\ \E t2 \in LaterReads(now) :
       LET res == AVGHandleEvent(avg, cur[1], now, t2)
       IN /\ avg' = res.st
          /\ now' = IF now - avg.start_time >= AVGWindow THEN t2 ELSE now
          /\ log' = Append(log, LogEntry("AVG", cur[1], res, now,
                                         avg.start_time))
          /\ Route(res)
  /\ UNCHANGED << fds, rd, vpl, taken, printed, ended,
               polled, obs, alt,
                  recv, parsed >>

VPLHandle ==
  /\ AtStage("VPL")
  /\ LET res == VPLHandleEvent(vpl, cur[1])
     IN /\ vpl' = res.st
        /\ log' = Append(log, LogEntry("VPL", cur[1], res, now, 0))
        /\ Route(res)
  /\ UNCHANGED << now, fds, rd, avg, taken, printed, ended,
               polled, obs, alt,
                  recv, parsed >>

\* mutant: the newest event is put in front of what was printed
PrinterPrint_InFront(out, e) == << e >> \o out

\* print(event): what standard output holds afterwards
PrinterPrint(out, e) == Append(out, e)

\* Printer.handle: print(event)
SinkHandle ==
  /\ phase = "flow"
  /\ pos = Len(pipeline) + 1
  /\ printed' = PrinterPrint(printed, cur[1])
  /\ phase' = "idle"
  /\ pos' = 0
  /\ cur' = << >>
  /\ UNCHANGED << now, fds, rd, avg, vpl, taken, log, ended,
               polled, obs, alt,
                  recv, parsed >>

\* main() after the sink has returned:
\* values_per_location.plot_values.plot(event_location_container, False)
PlotAfterRun ==
  /\ phase = "done"
  /\ obs = NoCall
  /\ vpl' = PlotValuesPlot(vpl)
  /\ obs' = [op |-> "plot", n |-> 1,
             reported |-> Len(get_reported_locations(vpl))]
  /\ UNCHANGED << now, fds, rd, avg, phase, pos, cur, taken, log, printed,
                  ended, polled, alt, recv, parsed >>

Next ==
  \/ Tick
  \/ PipelineHandle
  \/ SinkNext
  \/ SourceYield
  \/ ReceiverPollEmpty
  \/ SourceEnd
  \/ FDSHandle
  \/ RDHandle
  \/ AVGHandle
  \/ VPLHandle
  \/ SinkHandle
  \/ PlotAfterRun

Spec == Init /\ [][Next]_vars

\* a run of main(): the source is Receiver.get_events, which never ends
Program ==
  \/ PipelineHandle
  \/ SinkNext
  \/ ReceiverPollEmpty
  \/ FDSHandle
  \/ RDHandle
  \/ AVGHandle
  \/ VPLHandle
  \/ SinkHandle
  \/ PlotAfterRun

NextRecv ==
  \/ Tick
  \/ SourceYield
  \/ Program

\* the program keeps running and time keeps passing; whether the queue ever
\* holds a message is up to the environment
LiveSpec == Init /\ [][NextRecv]_vars /\ WF_vars(Program) /\ WF_vars(Tick)

\* ------------------------------------------------------- reading the log
\* positions of the log at which the given stage handled an item
At(stage) == {i \in DOMAIN log : log[i].stage = stage}

\* the items a stage took, and the items it passed on, in order
Input(stage) ==
  LET l == SelectSeq(log, LAMBDA x : x.stage = stage)
  IN [i \in DOMAIN l |-> l[i].ev]

Output(stage) ==
  LET l == SelectSeq(log, LAMBDA x : x.stage = stage /\ x.out # << >>)
  IN [i \in DOMAIN l |-> l[i].out[1]]

\* s is t, or t without its last element
IsPrefixShortBy1(s, t) ==
  /\ Len(s) \in {Len(t), Len(t) - 1}
  /\ \A i \in DOMAIN s : s[i] = t[i]

\* the expiry test of RemoveDuplicates held when log[i] was handled
RDReset(i) == log[i].t - log[i].w >= RDTime

\* log[i] and log[j], i < j, were handled by RemoveDuplicates with no window
\* reset after log[i] up to and including log[j]
RDSameWindow(i, j) ==
  \A m \in At("RD") : (i < m /\ m <= j) => ~RDReset(m)

\* ------------------------------------------------------------------ C1
\* the order of the stages the specification gives
SpecOrder == << "FDS", "RD", "AVG", "VPL" >>

StageRank(stage) == CHOOSE n \in DOMAIN SpecOrder : SpecOrder[n] = stage

\* some stage forwarded item k before log position i
ForwardedBefore(stage, k, i) ==
  \E j \in At(stage) : j < i /\ log[j].k = k /\ log[j].act = "fwd"

\* C1: every event passes FixedDurationSource, then RemoveDuplicates, then
\* AverageValuesPerMinute, then ValuesPerLocation, then the sink: a stage
\* handles an event only after every earlier stage of this order has
\* handled and forwarded it, and the sink only after all four have.
C1_StageOrder ==
  /\ \A i \in DOMAIN log :
       \A n \in 1..(StageRank(log[i].stage) - 1) :
         ForwardedBefore(SpecOrder[n], log[i].k, i)
  /\ (phase = "flow" /\ pos = Len(pipeline) + 1) =>
       \A n \in DOMAIN SpecOrder :
         ForwardedBefore(SpecOrder[n], taken, Len(log) + 1)

\* ------------------------------------------------------------------ C2
\* C2: every value in AverageValuesPerMinute's total/count or in a
\* per-location accumulator belongs to an event that FixedDurationSource
\* and RemoveDuplicates had forwarded; an event dropped as a duplicate or
\* cut at the deadline is in no average and no accumulator.
C2_OnlySurvivorsCounted ==
  /\ \A i \in At("AVG") \cup At("VPL") :
       /\ ForwardedBefore("FDS", log[i].k, i)
       /\ ForwardedBefore("RD", log[i].k, i)
  /\ \A j \in At("RD") \cup At("FDS") :
       log[j].act # "fwd" =>
         \A i \in At("AVG") \cup At("VPL") : log[i].k # log[j].k

\* ------------------------------------------------------------------ C3
\* C3: among the events with one event_id that RemoveDuplicates pulls while
\* one window is open exactly the first is forwarded, unchanged, and every
\* later one is dropped; what the stage forwards reaches the next stage in
\* the order it was pulled.
C3_FirstOfWindowOnly ==
  /\ \A j \in At("RD") :
       LET earlier == \E i \in At("RD") :
                        /\ i < j
                        /\ log[i].ev.event_id = log[j].ev.event_id
                        /\ RDSameWindow(i, j)
       IN IF earlier THEN log[j].out = << >>
                     ELSE log[j].out = << log[j].ev >>
  /\ \A i, j \in At("RD") :
       (/\ i < j
        /\ RDSameWindow(i, j)
        /\ log[i].act = "fwd"
        /\ log[j].act = "fwd") =>
          log[i].ev.event_id # log[j].ev.event_id
  /\ IsPrefixShortBy1(Input("FDS"), Output("RD"))

\* two events with one id were pulled in one window, then one with another
C3_Witness ==
  \E i, j, m \in At("RD") :
    /\ i < j
    /\ j < m
    /\ RDSameWindow(i, m)
    /\ log[i].ev.event_id = log[j].ev.event_id
    /\ log[m].ev.event_id # log[i].ev.event_id
    /\ Output("RD") = << log[i].ev, log[m].ev >>
    /\ rd.counter = 1

\* ------------------------------------------------------------------ C4
\* the last position at which RemoveDuplicates reset its window, 0 if none
RDLastReset ==
  LET rs == {i \in At("RD") : RDReset(i)}
  IN IF rs = {} THEN 0 ELSE CHOOSE i \in rs : \A m \in rs : m <= i

\* the expiry test runs before the membership test: an event pulled with
\* now - windowStart >= 300 is forwarded whatever the cache held, the
\* cache holds exactly the ids pulled since the last reset, the resetting
\* event included, and windowStart is a clock reading not earlier than
\* the one the expiry test used
RDResetFirst ==
  /\ \A j \in At("RD") : RDReset(j) => log[j].out = << log[j].ev >>
  /\ rd.event_id_cache =
       {log[i].ev.event_id : i \in {m \in At("RD") : m >= RDLastReset}}
  /\ IF RDLastReset = 0 THEN rd.start_time = 0
     ELSE rd.start_time \in LaterReads(log[RDLastReset].t)

\* C4 as amended: the expiry test runs first, and two events with one
\* event_id are both forwarded when the first is forwarded and the second
\* is pulled at least 300 seconds after the windowStart then in force.
C4_ResetBeforeMembership ==
  /\ RDResetFirst
  /\ \A i, j \in At("RD") :
       (/\ i < j
        /\ log[i].ev.event_id = log[j].ev.event_id
        /\ log[i].act = "fwd"
        /\ log[j].t - log[j].w >= RDTime) =>
          log[j].act = "fwd"

\* C4 as stated: ..., and two events with one event_id pulled at least 300
\* seconds apart are both forwarded.  It is stated for the most favourable
\* pairs: the first was forwarded and no event with that id lies between.
C4_Original ==
  /\ RDResetFirst
  /\ \A i, j \in At("RD") :
       (/\ i < j
        /\ log[i].ev.event_id = log[j].ev.event_id
        /\ log[i].act = "fwd"
        /\ \A m \in At("RD") :
             (i < m /\ m < j) => log[m].ev.event_id # log[i].ev.event_id
        /\ log[j].t - log[i].t >= RDTime) =>
          log[j].act = "fwd"

\* an event reset the window while its id was in the cache being emptied
C4_Witness ==
  \E i, j \in At("RD") :
    /\ i < j
    /\ log[i].ev.event_id = log[j].ev.event_id
    /\ log[i].act = "fwd"
    /\ RDSameWindow(i, j - 1)
    /\ RDReset(j)
    /\ log[j].act = "fwd"

\* ------------------------------------------------------------------ C5
\* C5: RemoveDuplicates.counter is the number of events the stage dropped,
\* whatever resets happened, so pulled = forwarded + counter.
C5_CounterCountsDrops ==
  /\ rd.counter = Cardinality({i \in At("RD") : log[i].out = << >>})
  /\ Len(Input("RD")) = Len(Output("RD")) + rd.counter

\* the window was reset after an event had been dropped
C5_Witness ==
  \E i, j \in At("RD") :
    /\ i < j
    /\ log[i].out = << >>
    /\ RDReset(j)
    /\ rd.counter >= 1

\* ------------------------------------------------------------------ C6
\* the log entries of AverageValuesPerMinute, in order
AVGLog == SelectSeq(log, LAMBDA x : x.stage = "AVG")

\* the close test of AverageValuesPerMinute held for its i-th item
AVGClose(i) == AVGLog[i].t - AVGLog[i].w >= AVGWindow

\* the positions in AVGLog of the items that closed a window, ascending
AVGCloses ==
  LET cs == {i \in DOMAIN AVGLog : AVGClose(i)}
      RECURSIVE Sorted(_)
      Sorted(S) ==
        IF S = {} THEN << >>
        ELSE LET m == CHOOSE x \in S : \A y \in S : x <= y
             IN << m >> \o Sorted(S \ {m})
  IN Sorted(cs)

\* the values of the items from..to of AVGLog
AVGValues(from, to) == [i \in 1..(to - from + 1) |-> AVGLog[from + i - 1].ev.value]

\* C6: at every window close count >= 1 and the average appended is
\* (sum of values) / (number of values) over the events pulled since the
\* previous close, the closing one included; total and count hold what was
\* pulled since the last close, so both are 0 right after a close.
C6_AverageOfWindow ==
  /\ Len(avg.average_values) = Len(AVGCloses)
  /\ \A n \in DOMAIN AVGCloses :
       LET from == IF n = 1 THEN 1 ELSE AVGCloses[n - 1] + 1
           vals == AVGValues(from, AVGCloses[n])
           a == avg.average_values[n]
       IN /\ Len(vals) >= 1
          /\ a.den >= 1
          /\ a.num * Len(vals) = SeqSum(vals) * a.den
  /\ LET from == IF AVGCloses = << >> THEN 1
                 ELSE AVGCloses[Len(AVGCloses)] + 1
         vals == AVGValues(from, Len(AVGLog))
     IN /\ avg.counter = Len(vals)
        /\ avg.total_value = SeqSum(vals)

\* a window closed over two events with different values, the second of
\* them the closing one, and total and count are back at 0
C6_Witness ==
  /\ Len(AVGLog) >= 2
  /\ AVGClose(Len(AVGLog))
  /\ ~AVGClose(Len(AVGLog) - 1)
  /\ AVGLog[Len(AVGLog)].ev.value # AVGLog[Len(AVGLog) - 1].ev.value
  /\ avg.counter = 0
  /\ avg.total_value = 0

\* ------------------------------------------------------------------ C7
\* C7: AverageValuesPerMinute forwards every event it pulls, unchanged and
\* in order, whether or not the event closes a window: the next stage
\* receives exactly its input.
C7_Passthrough ==
  /\ \A i \in DOMAIN AVGLog : AVGLog[i].out = << AVGLog[i].ev >>
  /\ Output("AVG") = Input("AVG")
  /\ IsPrefixShortBy1(Input("RD"), Input("AVG"))

\* the stage forwarded an event that closed a window and one that did not
C7_Witness ==
  \E i, j \in DOMAIN AVGLog :
    /\ AVGClose(i)
    /\ ~AVGClose(j)
    /\ Len(Input("RD")) = Len(AVGLog)

\* ------------------------------------------------------------------ C8
\* C8: the number of averages and the number of timestamps equal the
\* number of window closes that pulled events triggered; the end of the
\* input adds none for a partial window.
C8_NoFlushOfPartialWindow ==
  /\ Len(avg.average_values) = Len(AVGCloses)
  /\ Len(avg.average_values_timestamp) = Len(AVGCloses)

\* the input ended while the open window held values and was not due
C8_Witness ==
  /\ ended
  /\ avg.counter > 0
  /\ now - avg.start_time < AVGWindow
  /\ Len(avg.average_values) >= 1

\* ------------------------------------------------------------------ C9
\* C9 as stated: every item FixedDurationSource takes from upstream is
\* forwarded; none is pulled and then discarded at the deadline.
C9_Original ==
  \A i \in At("FDS") : log[i].out = << log[i].ev >>

\* C9 as amended: FixedDurationSource tests the deadline after it has taken
\* an item; the one item whose test fails is discarded, the stage then
\* signals end-of-sequence and takes no further item; every other item it
\* takes is forwarded.
C9_AtMostOneDiscarded ==
  /\ \A i \in At("FDS") :
       \/ log[i].out = << log[i].ev >> /\ log[i].t < log[i].w
       \/ /\ log[i].act = "cut"
          /\ log[i].t >= log[i].w
          /\ \A j \in At("FDS") : j <= i
          /\ log[i].k = taken
          /\ phase = "done"
  /\ Cardinality({i \in At("FDS") : log[i].act # "fwd"}) <= 1

\* an item was forwarded and a later one discarded at the deadline
C9_Witness ==
  \E i, j \in At("FDS") :
    /\ i < j
    /\ log[i].act = "fwd"
    /\ log[j].act = "cut"

\* ------------------------------------------------------------------ C10
\* C10: the deadline is (time of the first pull) + run_time_seconds; no
\* event is forwarded whose check read now >= deadline; none at all when
\* run_time_seconds <= 0; the checks of the first and the last forwarded
\* event are less than run_time_seconds apart; nothing is forwarded after
\* end-of-sequence.
C10_Deadline ==
  /\ fds.started => fds.end_time = fds.first_pull + fds.run_time_seconds
  /\ \A i \in At("FDS") :
       /\ log[i].w = fds.first_pull + fds.run_time_seconds
       /\ log[i].act = "fwd" => log[i].t < log[i].w
       /\ log[i].act = "fwd" => log[i].t >= fds.first_pull
  /\ fds.run_time_seconds <= 0 =>
       /\ \A i \in At("FDS") : log[i].act # "fwd"
       /\ fds.events_processed = 0
       /\ printed = << >>
  /\ \A i, j \in At("FDS") :
       (log[i].act = "fwd" /\ log[j].act = "fwd" /\ i < j) =>
         log[j].t - log[i].t <= fds.run_time_seconds
  /\ \A i, j \in At("FDS") :
       (log[i].act = "cut" /\ i < j) => log[j].act # "fwd"
  /\ phase = "done" => Len(printed) = Len(Output("FDS"))

\* the first pull came late, an event was forwarded just before the
\* deadline and the next one arrived exactly at it
C10_Witness ==
  /\ fds.first_pull > 0
  /\ fds.run_time_seconds > 0
  /\ \E i, j \in At("FDS") :
       /\ i < j
       /\ log[i].act = "fwd"
       /\ log[j].act = "cut"
       /\ log[j].t = fds.end_time

\* ------------------------------------------------------------------ C11
\* C11: events_processed is the number of events FixedDurationSource has
\* forwarded; after the run it is the number of events forwarded in the run.
C11_EventsProcessed ==
  /\ fds.events_processed =
       Cardinality({i \in At("FDS") : log[i].out # << >>})
  /\ fds.events_processed = Len(Output("FDS"))
  /\ phase = "done" => fds.events_processed = Len(printed)

\* the run ended at the deadline after an event had been forwarded
C11_Witness ==
  /\ phase = "done"
  /\ fds.events_processed >= 1
  /\ \E i \in At("FDS") : log[i].act = "cut"

\* ------------------------------------------------------------------ C13
\* C13: ValuesPerLocation forwards every event it pulls, unchanged; the
\* event's value is appended to the accumulator of the location with its
\* location_id and to no other; an event that matches no location changes
\* no accumulator and is forwarded all the same.
C13_BestEffortJoin ==
  [][(AtStage("VPL") /\ log' # log) =>
       /\ cur' = cur
       /\ phase' = "flow"
       /\ pos' = pos + 1
       /\ DOMAIN vpl' = DOMAIN vpl
       /\ \A i \in DOMAIN vpl :
            /\ vpl'[i].id = vpl[i].id
            /\ vpl'[i].values =
                 IF vpl[i].id = cur[1].location_id
                 THEN Append(vpl[i].values, cur[1].value)
                 ELSE vpl[i].values]_vars

\* an event of location "A" and one of the unknown location "C" have gone
\* through the stage; only A's accumulator holds a value
C13_Witness ==
  /\ \E i, j \in At("VPL") :
       /\ log[i].ev.location_id = "A"
       /\ log[j].ev.location_id = "C"
       /\ log[j].out = << log[j].ev >>
  /\ vpl[1].values # << >>
  /\ vpl[2].values = << >>

\* ------------------------------------------------------------------ C17
LastStage == pipeline[Len(pipeline)]

\* C17: the sink handles exactly the output sequence of the composed
\* pipeline: every event once, in order.
C17_SinkSeesOutput ==
  /\ IsPrefixShortBy1(printed, Output(LastStage))
  /\ (phase # "flow" \/ pos # Len(pipeline) + 1) =>
       printed = Output(LastStage)

\* two different events were printed and a third was dropped on the way
C17_Witness ==
  /\ Len(printed) = 2
  /\ printed[1] # printed[2]
  /\ \E i \in DOMAIN log : log[i].act = "drop"

\* ------------------------------------------------------------------ C20
\* pipeline position of a stage
PipelinePos(stage) == CHOOSE p \in DOMAIN pipeline : pipeline[p] = stage

\* item k left the pipeline: a stage dropped or cut it, or every stage
\* forwarded it and the sink has it
Settled(k) ==
  \/ \E i \in DOMAIN log : log[i].k = k /\ log[i].act # "fwd"
  \/ /\ \A p \in DOMAIN pipeline :
          \E i \in At(pipeline[p]) : log[i].k = k /\ log[i].act = "fwd"
     /\ (k < taken \/ phase # "flow")

\* C20: one item is in the pipeline at a time: item k has reached the sink
\* or been dropped before item k+1 is taken from the source; a stage
\* handles an item once, and only after every stage before it in the
\* pipeline has forwarded that item.
C20_OneItemAtATime ==
  /\ \A k \in 1..taken : (k < taken \/ phase # "flow") => Settled(k)
  /\ \A i, j \in DOMAIN log :
       i < j => /\ log[i].k <= log[j].k
                /\ (log[i].k = log[j].k =>
                      PipelinePos(log[i].stage) < PipelinePos(log[j].stage))
  /\ \A i \in DOMAIN log :
       \A p \in 1..(PipelinePos(log[i].stage) - 1) :
         ForwardedBefore(pipeline[p], log[i].k, i)
  /\ Len(printed) =
       Cardinality({k \in 1..taken :
                      /\ (k < taken \/ phase # "flow")
                      /\ \A i \in DOMAIN log : log[i].k = k => log[i].act = "fwd"})

\* the second item was dropped half way, the third is on its way
C20_Witness ==
  /\ taken = 3
  /\ phase = "flow"
  /\ pos = 2
  /\ \E i \in At("RD") : log[i].k = 2 /\ log[i].act = "drop"
  /\ Len(printed) = 1

\* ------------------------------------------------------------------ C18
\* the sink has not asked for an item yet
NotIterated == phase = "built" \/ (phase = "idle" /\ printed = << >>)

\* C18: composing the stages and calling handle() takes no item from the
\* source and changes no stage state; items are taken only after the sink
\* has begun to iterate.
C18_Lazy ==
  /\ NotIterated =>
       /\ taken = 0
       /\ log = << >>
       /\ ~fds.started
       /\ fds.events_processed = 0
       /\ rd.counter = 0
       /\ rd.event_id_cache = {}
       /\ avg.counter = 0
       /\ avg.total_value = 0
       /\ avg.average_values = << >>
       /\ \A i \in DOMAIN vpl : vpl[i].values = << >>
  /\ taken > 0 => fds.started

\* handle() was called some time after construction and nothing iterates
C18_Witness ==
  /\ phase = "idle"
  /\ printed = << >>
  /\ now > 0

\* ------------------------------------------------------------------ C12
\* C12: once run_time_seconds have elapsed the run ends, also when the
\* source never delivers an event: from a started run whose deadline has
\* passed with no event delivered, either an event is delivered after all
\* or the sink's drain returns.
C12_TerminatesWithoutEvents ==
  (fds.started /\ now >= fds.end_time /\ taken = 0)
    ~> (phase = "done" \/ taken > 0)

\* ------------------------------------------------------------------ C16
\* the ids of a sequence of locations or of accumulators
Ids(ls) == [i \in DOMAIN ls |-> ls[i].id]

\* the location ids of the events ValuesPerLocation has handled
LocationIdsSeen == {log[i].ev.location_id : i \in At("VPL")}

\* C16: get_reported_locations() yields exactly the locations for which an
\* event has been handled, in the order of the location list given at
\* construction, each with a non-empty value list; an id outside the
\* location list never appears.
C16_ReportedLocations ==
  LET reported == get_reported_locations(vpl)
  IN /\ Ids(reported) =
          Ids(SelectSeq(Locations, LAMBDA l : l.id \in LocationIdsSeen))
     /\ \A i \in DOMAIN reported : reported[i].values # << >>
     /\ \A i \in DOMAIN reported :
          \E j \in DOMAIN Locations : Locations[j].id = reported[i].id

\* events of B and of the unknown C were handled, none of A: only B is
\* reported
C16_Witness ==
  /\ Ids(get_reported_locations(vpl)) = << "B" >>
  /\ "C" \in LocationIdsSeen

\* ------------------------------------------- the location container alone
\* the container used on its own: events are added and the accessors are
\* called in any order
MaxValues == 3
MaxCalls == 3

AccPool ==
  { Event("A", "a1", 10, 0), Event("A", "a2", 20, 0),
    Event("B", "b1", 5, 0), Event("C", "c1", 7, 0) }

\* sink.ValuesAtLocation.average: total / len(self.values), a zero
\* denominator is ZeroDivisionError
SinkAverage(values) == Div(SeqSum(values), Len(values))

\* the end of sink.ValuesPerLocation.handle: PlotValues, then
\* SaveAverageAtLocationToCSV, then the print loop, each calling average() on
\* every accumulator of the container
SinkSummary(container) ==
  LET averages == [i \in DOMAIN container |-> SinkAverage(container[i].values)]
  IN IF \E i \in DOMAIN averages : averages[i].den = 0
     THEN [raised |-> TRUE, averages |-> << >>]
     ELSE [raised |-> FALSE, averages |-> averages]

AccInit ==
  /\ Init
  /\ fds.run_time_seconds = 60

\* add_event is called with an event
AccAddEvent ==
  /\ ~ended
  /\ taken < MaxValues
  /\ \E e \in AccPool : vpl' = add_event(vpl, e)
  /\ taken' = taken + 1
  /\ UNCHANGED << now, fds, rd, avg, phase, pos, cur, log, printed, ended,
                  polled, obs, alt,
                  recv, parsed >>

\* average() is called on one accumulator
AccAverage ==
  /\ obs.n < MaxCalls
  /\ \E i \in DOMAIN vpl :
       LET res == average(vpl[i])
       IN /\ vpl' = [vpl EXCEPT ![i] = res.st]
          /\ obs' = [op |-> "average", n |-> obs.n + 1, loc |-> i,
                     values |-> vpl[i].values, result |-> res.result]
  /\ UNCHANGED << now, fds, rd, avg, phase, pos, cur, taken, log, printed,
                  ended, polled, alt,
                  recv, parsed >>

\* the stream ends and the sink variant writes its per-location summary
AccSinkSummary ==
  /\ ~ended
  /\ ended' = TRUE
  /\ LET res == SinkSummary(vpl)
     IN obs' = [op |-> "summary", n |-> obs.n, raised |-> res.raised,
                averages |-> res.averages]
  /\ UNCHANGED << now, fds, rd, avg, vpl, phase, pos, cur, taken, log, printed,
                  polled, alt,
                  recv, parsed >>

AccNext ==
  \/ AccAddEvent
  \/ AccAverage
  \/ AccSinkSummary

AccSpec == AccInit /\ [][AccNext]_vars

\* ------------------------------------------------------------------ C14
\* C14: average() returns 0 for an accumulator without values and otherwise
\* the arithmetic mean of the values accumulated when it is called, however
\* often it was called before.
C14_Average ==
  obs.op = "average" =>
    IF obs.values = << >>
    THEN obs.result = [num |-> 0, den |-> 1]
    ELSE /\ obs.result.den # 0
         /\ obs.result.num * Len(obs.values)
              = SeqSum(obs.values) * obs.result.den

\* values [10, 20] give 15 on a call that follows an earlier call and a
\* later add_value
C14_Witness ==
  /\ obs.op = "average"
  /\ obs.n >= 2
  /\ obs.values = << 10, 20 >>
  /\ obs.result.den # 0
  /\ obs.result.num = 15 * obs.result.den
  /\ vpl[obs.loc].counter > Len(obs.values)

\* ------------------------------------------------------------------ C15
\* C15: the per-location summary of the sink variant completes without an
\* error, whatever values the locations have accumulated.
C15_SummaryCompletes == obs.op = "summary" => ~obs.raised

\* ------------------------------------------ two groupings of three stages
\* three stages a, b, c are composed as a.compose(b.compose(c)) and as
\* a.compose(b).compose(c); both pipelines start from the same stage states
\* and are fed the same items with the same clock readings.  alt.ref is
\* c.handle(b.handle(a.handle(events))) written out stage by stage.
StageNames == {"FDS", "RD", "AVG", "VPL"}

\* the loop body of the named stage on the stage states st
Body(name, st, e, t1, t2) ==
  CASE name = "FDS" ->
         LET r == FDSHandleEvent(st.fds, e, t1)
         IN [st |-> [st EXCEPT !.fds = r.st], out |-> r.out, stop |-> r.stop]
    [] name = "RD" ->
         LET r == RDHandleEvent(st.rd, e, t1, t2)
         IN [st |-> [st EXCEPT !.rd = r.st], out |-> r.out, stop |-> r.stop]
    [] name = "AVG" ->
         LET r == AVGHandleEvent(st.avg, e, t1, t2)
         IN [st |-> [st EXCEPT !.avg = r.st], out |-> r.out, stop |-> r.stop]
    [] name = "VPL" ->
         LET r == VPLHandleEvent(st.vpl, e)
         IN [st |-> [st EXCEPT !.vpl = r.st], out |-> r.out, stop |-> r.stop]

\* an item pulled through the nested generators: stage i handles it, and
\* what stage i yields is handled by stage i + 1
RECURSIVE Push(_, _, _, _, _, _)
Push(names, i, st, e, t1, t2) ==
  IF i > Len(names) THEN [st |-> st, out |-> << e >>, stop |-> FALSE]
  ELSE LET r == Body(names[i], st, e, t1, t2)
       IN IF r.out = << >> THEN r
          ELSE Push(names, i + 1, r.st, r.out[1], t1, t2)

\* one more item is fed to a pipeline that has not ended
Run(p, r, e, t1, t2) ==
  IF r.stopped THEN r
  ELSE LET res == Push(Stages(p), 1, r.st, e, t1, t2)
       IN [st |-> res.st, out |-> r.out \o res.out, stopped |-> res.stop]

\* c.handle(b.handle(a.handle(events))), one more item
Nested(a, b, c, r, e, t1, t2) ==
  IF r.stopped THEN r
  ELSE LET ra == Body(a, r.st, e, t1, t2)
           rb == Body(b, ra.st, ra.out[1], t1, t2)
           rc == Body(c, rb.st, rb.out[1], t1, t2)
           res == IF ra.out = << >> THEN ra
                  ELSE IF rb.out = << >> THEN rb ELSE rc
       IN [st |-> res.st, out |-> r.out \o res.out, stopped |-> res.stop]

AssocInit ==
  /\ Constructed
  /\ \E a \in StageNames : \E b \in StageNames \ {a} :
       \E c \in StageNames \ {a, b} :
         LET r0 == [st |-> [fds |-> [fds EXCEPT
                                       !.started = TRUE,
                                       !.end_time =
                                          FDSEndTime(now, fds.run_time_seconds),
                                       !.first_pull = now],
                            rd |-> rd, avg |-> avg, vpl |-> vpl],
                    out |-> << >>, stopped |-> FALSE]
         IN alt = [on |-> TRUE, a |-> a, b |-> b, c |-> c,
                   left |-> r0, right |-> r0, ref |-> r0]
  /\ parsed = NotParsed

\* the source delivers an item to both pipelines
AssocFeed ==
  /\ taken < MaxEvents
  /\ ~alt.ref.stopped
  /\ taken' = taken + 1
  /\ \E e \in EventPool : \E t2 \in LaterReads(now) :
       LET a == Stage(alt.a)
           b == Stage(alt.b)
           c == Stage(alt.c)
       IN alt' = [alt EXCEPT
                    !.left = Run(compose(a, compose(b, c)), @, e, now, t2),
                    !.right = Run(compose(compose(a, b), c), @, e, now, t2),
                    !.ref = Nested(alt.a, alt.b, alt.c, @, e, now, t2)]
  /\ UNCHANGED << now, fds, rd, avg, vpl, phase, pos, cur, log, printed, ended,
                  polled, obs,
                  recv, parsed >>

AssocNext ==
  \/ Tick
  \/ AssocFeed

AssocSpec == AssocInit /\ [][AssocNext]_vars

\* ------------------------------------------------------------------ C19
\* C19: a.compose(b.compose(c)) and a.compose(b).compose(c), fed the same
\* items with the same clock readings from the same initial stage states,
\* yield the same output sequence, end at the same item and leave the stages
\* in the same states; and these are the output and the states of
\* c.handle(b.handle(a.handle(events))).
C19_Associative ==
  alt.on => (alt.left = alt.right /\ alt.left = alt.ref)

\* RemoveDuplicates is among the three stages and has dropped one of three
\* items, the other two came out
C19_Witness ==
  /\ alt.on
  /\ taken = 3
  /\ Len(alt.left.out) = 2
  /\ alt.left.st.rd.counter = 1

\* ------------------------------------------------------- locations.py
\* the longest list of locations a downloaded file holds
MaxLocs == 3

\* Location(x, y, id)
Location(x, y, id) == [x |-> x, y |-> y, id |-> id]

\* the fields the lambda of _parse_locations_json reads from an entry
LocationFields == {"x", "y", "id"}

\* JSON objects an entry of the file can be: complete ones, one with a
\* further field, one without id, one with none of the fields
LocEntryPool ==
  { [x |-> 1, y |-> 1, id |-> "A"],
    [x |-> 2, y |-> 5, id |-> "B"],
    [x |-> 3, y |-> 3, id |-> "D", z |-> 0],
    [x |-> 1, y |-> 2],
    [foo |-> "bar"] }

\* what _download_file_from_s3 can return: text that is not JSON, a JSON
\* number, or a JSON array of objects
LocContents ==
  { [kind |-> "invalid"], [kind |-> "number"] }
    \cup { [kind |-> "array", entries |-> es] :
             es \in UNION { [1..n -> LocEntryPool] : n \in 0..MaxLocs } }

\* list(map(lambda loc: Location(x=loc['x'], y=loc['y'], id=loc['id']), ...)):
\* the entries are converted in order, the first entry without one of the
\* keys raises KeyError and the list built so far is lost
RECURSIVE MapLocations(_, _)
MapLocations(entries, acc) ==
  IF entries = << >> THEN [raised |-> FALSE, value |-> acc]
  ELSE LET loc == Head(entries)
       IN IF LocationFields \subseteq DOMAIN loc
          THEN MapLocations(Tail(entries),
                            Append(acc, Location(loc.x, loc.y, loc.id)))
          ELSE [raised |-> TRUE]

\* mutant: an entry without one of the keys is left out of the result
parse_locations_json_Lenient(locations) ==
  IF locations.kind = "array"
  THEN LET ok == SelectSeq(locations.entries,
                           LAMBDA loc : LocationFields \subseteq DOMAIN loc)
       IN [raised |-> FALSE,
           value |-> [i \in DOMAIN ok |->
                        Location(ok[i].x, ok[i].y, ok[i].id)]]
  ELSE [raised |-> TRUE, error |-> "Malformed locations file"]

\* _parse_locations_json: json.loads and the map run inside try, every
\* Exception is replaced by Exception('Malformed locations file', e)
parse_locations_json(locations) ==
  LET r == IF locations.kind = "array"
           THEN MapLocations(locations.entries, << >>)
           ELSE [raised |-> TRUE]
  IN IF r.raised
     THEN [raised |-> TRUE, error |-> "Malformed locations file"]
     ELSE r

\* get_locations returns what _parse_locations_json makes of the download
get_locations(locations_json) == parse_locations_json(locations_json)

LocInit ==
  /\ Constructed
  /\ alt = NoRun
  /\ \E c \in LocContents : parsed = [called |-> FALSE, content |-> c]

\* main() calls get_locations
GetLocations ==
  /\ ~parsed.called
  /\ parsed' = [called |-> TRUE, content |-> parsed.content,
                result |-> get_locations(parsed.content)]
  /\ UNCHANGED << now, fds, rd, avg, vpl, phase, pos, cur, taken, log, printed,
                  ended, polled, obs, alt, recv >>

LocNext == GetLocations

LocSpec == LocInit /\ [][LocNext]_vars

\* ------------------------------------------------------------------ C23
\* every entry of the array has x, y and id
LocComplete(c) ==
  /\ c.kind = "array"
  /\ \A i \in DOMAIN c.entries : LocationFields \subseteq DOMAIN c.entries[i]

\* C23: for a list whose entries all have x, y and id, get_locations returns
\* one Location per entry, in the order of the list (none for the empty
\* list); for text that is not JSON and for a list with an entry lacking x,
\* y or id it raises 'Malformed locations file' and returns no list at all.
C23_GetLocations ==
  parsed.called =>
    LET c == parsed.content
        r == parsed.result
    IN IF LocComplete(c)
       THEN /\ ~r.raised
            /\ Len(r.value) = Len(c.entries)
            /\ \A i \in DOMAIN c.entries :
                 r.value[i] = [x |-> c.entries[i].x, y |-> c.entries[i].y,
                               id |-> c.entries[i].id]
       ELSE (c.kind \in {"invalid", "array"}) =>
              /\ r.raised
              /\ r.error = "Malformed locations file"
              /\ "value" \notin DOMAIN r

\* a complete entry followed by one without id: the call fails
C23_Witness ==
  /\ parsed.called
  /\ parsed.content.kind = "array"
  /\ Len(parsed.content.entries) = 2
  /\ LocationFields \subseteq DOMAIN parsed.content.entries[1]
  /\ "id" \notin DOMAIN parsed.content.entries[2]
  /\ parsed.result.raised

\* --------------------------------------------------------- receiver.py
\* the number of polls followed, and the longest batch a poll returns
MaxPolls == 2
MaxBatch == 2

\* the keys _convert_message reads from the decoded payload
EventFields == {"locationId", "eventId", "value", "timestamp"}

\* the keys of the payloads below that hold strings
StringFields == {"locationId", "eventId", "not"}

\* the text of a payload: a JSON object with the given members ("object"),
\* the same text once more encoded as a JSON string, in quotes and with its
\* quotes escaped ("quoted"), or text that is not JSON ("garbage").  The
\* string "a<LF>b" holds a line feed and "a<Q>b" a double quote; the JSON
\* text of either holds a backslash escape.
Payload(form, fields) == [form |-> form, fields |-> fields]

\* a raw SQS message; envelope says that Body is a JSON object with a member
\* 'Message'
Message(handle, envelope, text) ==
  [ReceiptHandle |-> handle, Body |-> [envelope |-> envelope, Message |-> text]]

MessagePool ==
  { Message("h1", TRUE,
            Payload("object", [locationId |-> "A", eventId |-> "e1",
                               value |-> 10, timestamp |-> 0])),
    Message("h2", TRUE,
            Payload("quoted", [locationId |-> "B", eventId |-> "e2",
                               value |-> 20, timestamp |-> 0])),
    Message("h3", TRUE, Payload("object", [not |-> "valid"])),
    Message("h4", TRUE, [form |-> "garbage"]),
    Message("h5", FALSE, [form |-> "garbage"]),
    Message("h6", TRUE,
            Payload("object", [locationId |-> "a<LF>b", eventId |-> "e6",
                               value |-> 5, timestamp |-> 0])),
    Message("h7", TRUE,
            Payload("object", [locationId |-> "a<Q>b", eventId |-> "e7",
                               value |-> 5, timestamp |-> 0])) }

\* the batches receive_message can return
Batches == UNION { [1..n -> MessagePool] : n \in 0..MaxBatch }

\* re.sub('^\"|\"$|\\\\', '', message_body): a quote at the start, a quote
\* at the end and every backslash are removed.  A quoted payload becomes the
\* object text; an escaped line feed loses its backslash and reads "n"; an
\* escaped quote becomes a bare quote inside a string, which is not JSON
ReSub(text) ==
  IF text.form = "garbage" THEN text
  ELSE IF \E f \in DOMAIN text.fields \cap StringFields :
            text.fields[f] = "a<Q>b"
       THEN [form |-> "garbage"]
       ELSE Payload("object",
                    [f \in DOMAIN text.fields |->
                       IF f \in StringFields /\ text.fields[f] = "a<LF>b"
                       THEN "anb" ELSE text.fields[f]])

\* Receiver._convert_message: << >> is None, returned for every exception
convert_message(message) ==
  IF ~message.Body.envelope THEN << >>
  ELSE LET json_message_body == ReSub(message.Body.Message)
       IN IF json_message_body.form # "object" THEN << >>
          ELSE IF ~(EventFields \subseteq DOMAIN json_message_body.fields)
               THEN << >>
               ELSE << Event(json_message_body.fields.locationId,
                             json_message_body.fields.eventId,
                             json_message_body.fields.value,
                             json_message_body.fields.timestamp) >>

\* mutant: the delete request is sent for an empty batch too
delete_messages_NoGuard(queue_url, messages) ==
  << [op |-> "delete_message_batch", QueueUrl |-> queue_url,
      Entries |-> [i \in DOMAIN messages |->
                     [Id |-> i - 1,
                      ReceiptHandle |-> messages[i].ReceiptHandle]]] >>

\* Receiver._delete_messages: the calls it makes on the SQS client
delete_messages(queue_url, messages) ==
  IF Len(messages) > 0
  THEN << [op |-> "delete_message_batch", QueueUrl |-> queue_url,
           Entries |-> [i \in DOMAIN messages |->
                          [Id |-> i - 1,
                           ReceiptHandle |-> messages[i].ReceiptHandle]]] >>
  ELSE << >>

\* Receiver._get_messages with the batch receive_message returned: the calls
\* made on the SQS client before it returns the batch
get_messages(queue_url, messages) ==
  << [op |-> "receive_message", QueueUrl |-> queue_url,
      Messages |-> messages] >>
    \o delete_messages(queue_url, messages)

RecvInit ==
  /\ Init
  /\ fds.run_time_seconds = 60

\* get_events: the map over the last batch is exhausted (or there was none),
\* the while loop calls _get_messages again
RecvPoll ==
  /\ recv.batch = << >>
  /\ recv.polls < MaxPolls
  /\ \E messages \in Batches :
       recv' = [recv EXCEPT !.polls = @ + 1,
                            !.batch = messages,
                            !.hist = get_messages(recv.queue_url, messages)]
  /\ UNCHANGED << now, fds, rd, avg, vpl, phase, pos, cur, taken, log, printed,
                  ended, polled, obs, alt, parsed >>

\* get_events: map converts the next message of the batch and filter passes
\* it on unless it is None
RecvConvert ==
  /\ recv.batch # << >>
  /\ LET message == Head(recv.batch)
         event == convert_message(message)
     IN recv' = [recv EXCEPT
                   !.batch = Tail(@),
                   !.hist = Append(@, IF event = << >>
                                      THEN [op |-> "skip", message |-> message]
                                      ELSE [op |-> "yield", message |-> message,
                                            event |-> event[1]])]
  /\ UNCHANGED << now, fds, rd, avg, vpl, phase, pos, cur, taken, log, printed,
                  ended, polled, obs, alt, parsed >>

RecvNext ==
  \/ RecvPoll
  \/ RecvConvert

RecvSpec == RecvInit /\ [][RecvNext]_vars

\* ------------------------------------------------------------------ C21
\* the message carries a complete event, as a JSON object or as that object
\* encoded once more as a JSON string
Decodable(message) ==
  /\ message.Body.envelope
  /\ message.Body.Message.form \in {"object", "quoted"}
  /\ EventFields \subseteq DOMAIN message.Body.Message.fields

\* the event such a message carries
DecodedEvent(message) ==
  LET fields == message.Body.Message.fields
  IN Event(fields.locationId, fields.eventId, fields.value, fields.timestamp)

\* the messages of the last poll that have been converted, in order
Converted == SelectSeq(recv.hist, LAMBDA h : h.op \in {"yield", "skip"})

\* C21: get_events skips every message that does not decode into an Event
\* and yields the Event of every message that does, in the order in which
\* the poll returned the messages; an empty poll yields nothing.
C21_ValidYieldedInvalidSkipped ==
  /\ \A j \in DOMAIN Converted :
       LET h == Converted[j]
       IN /\ h.message = recv.hist[1].Messages[j]
          /\ IF Decodable(h.message)
             THEN h.op = "yield" /\ h.event = DecodedEvent(h.message)
             ELSE h.op = "skip"
  /\ Len(Converted) + Len(recv.batch) =
       (IF recv.hist = << >> THEN 0 ELSE Len(recv.hist[1].Messages))

\* ------------------------------------------------------------------ C22
\* C22: a poll that returns messages is followed at once by one
\* delete_message_batch on the same queue URL whose entries name the receipt
\* handle of every message of the batch, in order, and only then are the
\* messages converted and their events yielded; a poll that returns no
\* message is followed by no request and no event.
C22_DeleteBeforeYield ==
  recv.hist # << >> =>
    LET poll == recv.hist[1]
    IN /\ poll.op = "receive_message"
       /\ poll.QueueUrl = recv.queue_url
       /\ IF poll.Messages = << >>
          THEN Len(recv.hist) = 1
          ELSE /\ Len(recv.hist) >= 2
               /\ recv.hist[2].op = "delete_message_batch"
               /\ recv.hist[2].QueueUrl = poll.QueueUrl
               /\ Len(recv.hist[2].Entries) = Len(poll.Messages)
               /\ \A i \in DOMAIN poll.Messages :
                    /\ recv.hist[2].Entries[i].ReceiptHandle =
                         poll.Messages[i].ReceiptHandle
                    /\ recv.hist[2].Entries[i].Id = i - 1
               /\ \A i \in 3..Len(recv.hist) :
                    recv.hist[i].op \in {"yield", "skip"}

\* the second poll returned a message that is skipped and one whose event
\* is yielded; the request that deletes both came first
C22_Witness ==
  /\ recv.polls = 2
  /\ Len(recv.hist) = 4
  /\ recv.hist[2].op = "delete_message_batch"
  /\ Len(recv.hist[2].Entries) = 2
  /\ recv.hist[3].op = "skip"
  /\ recv.hist[4].op = "yield"

\* ------------------------------------------------------------------ C24
\* the values of the pulled events of one location, in arrival order
PulledValues(id) ==
  LET l == SelectSeq(log, LAMBDA x : x.stage = "VPL" /\ x.ev.location_id = id)
  IN [i \in DOMAIN l |-> l[i].ev.value]

\* C24: at every moment of the run, also after a duplicate window was reset,
\* a minute window closed and average() and get_reported_locations() were
\* called, the values list of every location is the list of the values of
\* the pulled events with that location_id, in arrival order.
C24_AppendOnly ==
  \A i \in DOMAIN vpl : vpl[i].values = PulledValues(vpl[i].id)

\* two values of one location arrived, a minute window closed and the
\* duplicate window was reset in between, and average() has been called
C24_Witness ==
  /\ obs.op = "plot"
  /\ \E i \in DOMAIN vpl : Len(vpl[i].values) = 2 /\ vpl[i].counter = 2
  /\ avg.average_values # << >>
  /\ \E j \in At("RD") : RDReset(j)

\* ------------------------------------------------------------------ C25
\* C25: a window is closed only by an arriving event and at most once per
\* event: the recorded averages and timestamps are one each per event whose
\* arrival found the window due, the timestamp being that event's clock
\* reading, however long the window was overdue; consecutive timestamps are
\* at least 60 seconds apart.
C25_OneClosePerEvent ==
  LET closes == AVGCloses
      stamps == avg.average_values_timestamp
  IN /\ Len(avg.average_values) = Len(stamps)
     /\ Len(stamps) = Len(closes)
     /\ Len(stamps) <= Len(AVGLog)
     /\ \A n \in DOMAIN closes : stamps[n] = AVGLog[closes[n]].t
     /\ \A n \in 1..(Len(stamps) - 1) : stamps[n + 1] - stamps[n] >= AVGWindow

\* the second window was closed by an event that came four minutes after
\* the first close: one average was recorded for it
C25_Witness ==
  /\ Len(avg.average_values_timestamp) = 2
  /\ avg.average_values_timestamp[2] - avg.average_values_timestamp[1]
       >= 4 * AVGWindow
  /\ \E i \in DOMAIN AVGLog :
       /\ AVGLog[i].t = avg.average_values_timestamp[2]
       /\ AVGLog[i].t - AVGLog[i].w >= 2 * AVGWindow
====
